---- MODULE Spec2Model ----
(***************************************************************************)
(* Model of the streaming core of santegoeds/oanda: a PriceServer running  *)
(* on messageServer.  One goroutine runs messageServer.readMessages (the   *)
(* read loop), one runs PriceServer.handleMessages, one runs               *)
(* PriceServer.handleHeartbeats, and PriceServer.initServer starts one     *)
(* worker per entry of tickChans.Instruments().  Durations are in seconds. *)
(***************************************************************************)
EXTENDS Integers, Sequences, FiniteSets, TLC

\* ---------------------------------------------------------------- bounds
\* Total number of frames the stream server sends during one session.
MaxFrames == 2
\* Largest number of further frames one body read leaves in the json.Decoder buffer.
MaxBuffered == 1
\* Total number of frames the stream server sends during a session nobody stops.
MaxStreamFrames == 8
\* Total number of frames the stream server sends during a session read through TimedReader.
MaxTimedFrames == 3
\* Number of responses streamServer receives during one Run.
MaxBodies == 3
\* messageServer.stallTimeout, in units of time.
StallTimeout == 2
MaxCap == 3             \* largest capacity given to NewWindow
MaxPushLen == 4         \* most values passed to one Push
MaxPushed == 6          \* most values pushed on one Window

\* ------------------------------------------------------ program constants
defaultBufferSize == 5
maxDelay == 300
baseDelay == 1

\* Instruments passed to NewPriceServer, and one the caller did not register.
Instrs == {"A", "B"}
OtherInstrs == {"C"}
WireInstrs == Instrs \cup OtherInstrs

NoChan == 0

\* streamServer (src/streaming.go): the goroutine of Run and the goroutine the stall
\* timer starts for ss.connect; responses are numbered from 1.
Goroutines == {"run", "timer"}
NoRsp == 0

\* jsonDecoder (src/decode.go).  A JSON value is absent, a number or a string; an
\* object is given by the values of its keys code, message and moreInfo.
Absent == [t |-> "absent", n |-> 0, s |-> ""]
Num(i) == [t |-> "num", n |-> i, s |-> ""]
Str(x) == [t |-> "str", n |-> 0, s |-> x]

Codes == {Absent, Num(0), Num(1), Num(2), Str("1")}
Texts == {Absent, Str("Test Message"), Str("More Info"), Num(7)}
Objects == [code : Codes, message : Texts, moreInfo : Texts]
EmptyObject == [code |-> Absent, message |-> Absent, moreInfo |-> Absent]

\* The receivers: a struct embedding ApiError, map[string]interface{},
\* map[string]json.RawMessage.
Receivers == {"struct", "imap", "rmap"}

\* The error Decode returns: nil, an *ApiError, or another error.
NoResult == [kind |-> "none", Code |-> 0, Message |-> "", MoreInfo |-> ""]
Nil == [kind |-> "nil", Code |-> 0, Message |-> "", MoreInfo |-> ""]
OtherError == [kind |-> "error", Code |-> 0, Message |-> "", MoreInfo |-> ""]
ApiError(c, m, i) == [kind |-> "apiError", Code |-> c, Message |-> m, MoreInfo |-> i]

VARIABLES
  mainPc,       \* caller of ConnectAndHandle: "idle", "running", "returned"
  retVal,       \* value ConnectAndHandle returned: "none", "nil", "neterr", "apierr"
  runFlg,       \* messageServer.runFlg
  mtx,          \* messageServer.mtx: "free" or "reader"
  rpc,          \* position of the read loop
  delay,        \* newReader's delay
  rerr,         \* newReader's named result err: "nil", "neterr", "apierr"
  conn,         \* the HTTP request: "none", "inflight", "open", "cancelled"
  buffered,     \* frames already read into the json.Decoder's buffer
  rmsg,         \* the StreamMessage the read loop is sending on msgC
  decoded,      \* frames decoded so far in this session
  hmPc,         \* PriceServer.handleMessages: "off", "recv", "route", "stopping", "done"
  hmTick,       \* instrument of the tick handleMessages is routing
  hbPc,         \* PriceServer.handleHeartbeats: "off", "recv", "cb", "stopping", "cbStopped", "done"
  chanMap,      \* tickChans.m: instrument -> channel (NoChan is nil)
  chanBuf,      \* channel -> queued ticks
  chanClosed,   \* channel -> closed
  wPc,          \* worker of a channel: "off", "recv", "handle", "stopping", "handleStopped", "exited"
  extPc,        \* another goroutine of the caller that may call Stop: "idle", "stopping", "done"
  stopCalled,   \* the caller has called PriceServer.Stop
  stopReturned, \* a Stop call of the caller has returned
  invocations,  \* number of times the tick handler has been entered
  fails,        \* consecutive failed connect attempts in this newReader call
  lastSleep,    \* duration of the most recent backoff sleep (0: none yet)
  hist,         \* what the session has seen so far (a set of tags)
  tickSeq,          \* instrument -> number of ticks decoded for it so far
  hbSeq,        \* number of heartbeat frames decoded successfully so far
  handled,      \* worker -> the ticks it has passed to handleFn, in order
  hbLog,        \* the heartbeats HeartbeatFunc has been entered for, in order
  timer,        \* TimedReader.timer: "off" (nil or stopped), "armed", "fired"
  timerAge,     \* time since TimedReader.timer was last set
  readAge,      \* time the pending Read of the body has been waiting
  isStopped,    \* streamServer.isStopped
  rsp,          \* streamServer.rsp: the response it points to (NoRsp is nil)
  rspMtx,       \* streamServer.rspMtx: "free" or the goroutine holding it
  stallTimer,   \* streamServer.stallTimer: "off" (nil, fired) or "armed"
  bodies,       \* the response bodies that are open (connected and not closed)
  opened,       \* number of responses received so far
  strm,         \* the body runDispatchLoop reads
  ssPc,         \* position of Run's goroutine and of the stall timer's goroutine
  decRecv,      \* jsonDecoder.Decode: the kind of receiver vp points to
  decObj,       \* jsonDecoder.Decode: the JSON object read
  decOut,       \* jsonDecoder.Decode: the error returned (NoResult: not called yet)
  winValues,    \* analytics.Window: w.values up to its length
  winCap,       \* analytics.Window: cap(w.values)
  winPushed,    \* every value passed to Push so far, oldest first
  pvChan,       \* pricesServer.handleMessage: the channel tickChans.Get returned
  ssErr,        \* streamServer.Run: err
  ssStop,       \* position of a goroutine that calls streamServer.Stop
  ssSeen,       \* what the stream of streamServer has delivered so far
  callPc,       \* a second call of ConnectAndHandle on the running PriceServer
  callRet,      \* the value the second call returned
  callWorkers,  \* the channels whose workers the second call started
  againPc,      \* a Stop and a second ConnectAndDispatch on the same messageServer
  againDelay    \* the local delay of the second call's newReader

timerVars == << timer, timerAge, readAge >>

\* The variables the PriceServer session of Spec and StreamSpec leaves alone.
ssVars == << isStopped, rsp, rspMtx, stallTimer, bodies, opened, strm, ssPc >>

decVars == << decRecv, decObj, decOut >>

winVars == << winValues, winCap, winPushed >>

againVars == << againPc, againDelay >>
moreVars == << pvChan, ssErr, ssStop, ssSeen, callPc, callRet, callWorkers, againVars >>

auxVars == << timerVars, ssVars, decVars, winVars, moreVars >>

\* The variables of the PriceServer session.
coreVars == << mainPc, retVal, runFlg, mtx, rpc, delay, rerr, conn, buffered, rmsg,
               decoded, hmPc, hmTick, hbPc, chanMap, chanBuf, chanClosed, wPc, extPc,
               stopCalled, stopReturned, invocations, fails, lastSleep, hist,
               tickSeq, hbSeq, handled, hbLog >>

vars == << coreVars, auxVars >>

\* ------------------------------------------------------------ tickChans
\* Go's map iteration order is unspecified; the order only names the channels.
KeysSeq(S) == CHOOSE s \in [1..Cardinality(S) -> S] : \A k \in S : \E i \in DOMAIN s : s[i] = k

\* tickChans.Instruments: make([]string, len(tc.m)) followed by append of every key,
\* so the result starts with len(tc.m) empty strings.
Instruments(m) ==
  LET n == Cardinality(DOMAIN m)
      ks == KeysSeq(DOMAIN m)
  IN  [i \in 1..(2 * n) |-> IF i <= n THEN "" ELSE ks[i - n]]

\* newTickChans: every registered instrument maps to nil.
newTickChans(instruments) == [k \in instruments |-> NoChan]

\* tickChans.Set
Set(m, instr, ch) == (instr :> ch) @@ m

\* PriceServer.initServer: one channel and one worker per element of Instruments().
\* The channel made in iteration i is channel i.
RECURSIVE initServerFrom(_, _, _)
initServerFrom(seq, i, m) ==
  IF i > Len(seq) THEN m ELSE initServerFrom(seq, i + 1, Set(m, seq[i], i))

initServer(m) == initServerFrom(Instruments(m), 1, m)

Chans == 1..(2 * Cardinality(Instrs))

\* The closing loop at the end of PriceServer.handleMessages.
RECURSIVE closeFrom(_, _, _, _)
closeFrom(seq, i, m, closed) ==
  IF i > Len(seq) THEN << m, closed >>
  ELSE LET k == seq[i]
       IN IF k \in DOMAIN m /\ m[k] # NoChan
          THEN closeFrom(seq, i + 1, Set(m, k, NoChan), [closed EXCEPT ![m[k]] = TRUE])
          ELSE closeFrom(seq, i + 1, m, closed)

closeTickChans(m, closed) == closeFrom(Instruments(m), 1, m, closed)

\* ------------------------------------------------------------ wire frames
\* A tick names an instrument of the wire or carries an empty instrument field.
TickFrames == [kind : {"tick"}, instr : WireInstrs \cup {""}, ok : {TRUE}]
Frames ==
  TickFrames
  \cup { [kind |-> "tick", instr |-> "", ok |-> FALSE] }        \* payload that is no tick
  \cup [kind : {"heartbeat"}, instr : {""}, ok : BOOLEAN]
  \cup { [kind |-> "disconnect", instr |-> "", ok |-> TRUE] }
  \cup { [kind |-> "error", instr |-> "", ok |-> FALSE] }       \* {"code":..,"message":..,"moreInfo":..}

\* StreamMessage.UnmarshalJSON: Type and RawMessage are those of the key the map
\* iteration visits last.  An error object has three keys, none of them an object.
UnmarshalJSON(f) ==
  IF f.kind = "error"
  THEN { [Type |-> t, instr |-> "", ok |-> FALSE] : t \in {"code", "message", "moreInfo"} }
  ELSE { [Type |-> f.kind, instr |-> f.instr, ok |-> f.ok] }

NoMsg == [Type |-> "", instr |-> "", ok |-> FALSE, n |-> 0]

NoTick == [instr |-> "", n |-> 0]

\* The keys of tickChans.m once PriceServer.initServer has run.
Routable == {""} \cup Instrs

\* A buffered channel: a send appends, a receive takes the oldest element.
SendMut(q, t) == q
Send(q, t) == Append(q, t)

ReceiveMut(q) == [elem |-> q[Len(q)], rest |-> SubSeq(q, 1, Len(q) - 1)]
Receive(q) == [elem |-> Head(q), rest |-> Tail(q)]

\* ------------------------------------------------------------------ Init
\* The session before ConnectAndHandle is called, its channel map being m.
SessionInit(m) ==
  /\ mainPc = "idle" /\ retVal = "none"
  /\ runFlg = FALSE /\ mtx = "free"
  /\ rpc = "off" /\ delay = baseDelay /\ rerr = "nil"
  /\ conn = "none" /\ buffered = 0 /\ rmsg = NoMsg /\ decoded = 0
  /\ hmPc = "off" /\ hmTick = NoTick /\ hbPc = "off"
  /\ chanMap = m
  /\ chanBuf = [c \in Chans |-> << >>]
  /\ chanClosed = [c \in Chans |-> FALSE]
  /\ wPc = [c \in Chans |-> "off"]
  /\ extPc = "idle"
  /\ stopCalled = FALSE /\ stopReturned = FALSE
  /\ invocations = 0 /\ fails = 0 /\ lastSleep = 0
  /\ hist = {}
  /\ tickSeq = [k \in Routable |-> 0] /\ hbSeq = 0
  /\ handled = [c \in Chans |-> << >>] /\ hbLog = << >>

\* No TimedReader, a streamServer that has not run, no jsonDecoder call.
TimerIdle == timer = "off" /\ timerAge = 0 /\ readAge = 0

SsIdle ==
  /\ isStopped = TRUE /\ rsp = NoRsp /\ rspMtx = "free" /\ stallTimer = "off"
  /\ bodies = {} /\ opened = 0 /\ strm = NoRsp
  /\ ssPc = [g \in Goroutines |-> "idle"]

DecIdle == decRecv = "struct" /\ decObj = EmptyObject /\ decOut = NoResult

WinIdle == winValues = << >> /\ winCap = 0 /\ winPushed = << >>

MoreIdle ==
  /\ pvChan = NoChan /\ ssErr = "nil" /\ ssStop = "idle" /\ ssSeen = {}
  /\ callPc = "idle" /\ callRet = "none" /\ callWorkers = {}
  /\ againPc = "idle" /\ againDelay = baseDelay

Init ==
  /\ SessionInit(newTickChans(Instrs)) /\ TimerIdle /\ SsIdle /\ DecIdle /\ WinIdle
  /\ MoreIdle


\* ------------------------------------------------------- messageServer
\* cancelRequest: Transport.CancelRequest aborts the request whose body is being
\* read; with no request in flight it does nothing.
cancelRequest(c) == IF c = "open" THEN "cancelled" ELSE c

\* newReader, lines 206-208: after a failed attempt the loop goes on unless the
\* error is an *ApiError.
KeepRunningMut(err) == TRUE
KeepRunning(err) == err # "apierr"

\* newReader, lines 202-203: the copy of s.runFlg, read under s.mtx, decides whether a
\* request is made.
MayRequestMut(flag) == TRUE
MayRequest(flag) == flag

\* newReader, line 214: the condition that leaves the connect loop.
LeavesLoop(runFlgL, rdrOpen, d) == ~runFlgL \/ rdrOpen \/ d >= maxDelay

\* msgC and hbC are closed by the deferred calls of readMessages.
MsgClosed == rpc \in {"closed", "done"}

\* A call of newReader starts with delay = time.Second and err = nil (and has not slept).
EnterNewReaderMut ==
  /\ rpc' = "lock" /\ rerr' = "nil" /\ UNCHANGED << delay, fails, lastSleep >>
EnterNewReader ==
  /\ rpc' = "lock" /\ delay' = baseDelay /\ rerr' = "nil" /\ fails' = 0 /\ lastSleep' = 0

\* PriceServer.ConnectAndHandle up to the first newReader call: PriceServer.initServer,
\* messageServer.initServer, and the two goroutines readMessages starts.
Start ==
  /\ mainPc = "idle" /\ mtx = "free" /\ ~runFlg
  /\ chanMap' = initServer(chanMap)
  /\ wPc' = [c \in Chans |-> IF c <= Len(Instruments(chanMap)) THEN "recv" ELSE "off"]
  /\ runFlg' = TRUE
  /\ hbPc' = "recv" /\ hmPc' = "recv"
  /\ EnterNewReader
  /\ mainPc' = "running"
  /\ UNCHANGED << retVal, mtx, conn, buffered, rmsg, decoded, auxVars, tickSeq, hbSeq, hmTick,
                  chanBuf, chanClosed, extPc, stopCalled, stopReturned, invocations, handled,
                  hbLog, hist >>

\* newReader, lines 201-205 and 213-214 when runFlg is false: lock, read runFlg, and
\* either issue the request (keeping the lock) or unlock and leave the loop.
RdLock ==
  /\ rpc = "lock" /\ mtx = "free"
  /\ IF MayRequest(runFlg)
     THEN /\ mtx' = "reader" /\ conn' = "inflight" /\ rpc' = "connecting"
     ELSE /\ rpc' = "ret" /\ UNCHANGED << mtx, conn >>
  /\ UNCHANGED << mainPc, retVal, runFlg, delay, rerr, buffered, rmsg, decoded, auxVars,
                  tickSeq, hbSeq, hmPc, hmTick, hbPc, chanMap, chanBuf, chanClosed, wPc, extPc,
                  stopCalled, stopReturned, invocations, handled, hbLog, fails, lastSleep,
                  hist >>

\* newResponse returns: a response below 400, a network error, or an *ApiError decoded
\* from a response of 400 or more; then lines 206-216.
Connected(outcome) ==
  /\ rpc = "connecting"
  /\ mtx' = "free"
  /\ IF outcome = "ok"
     THEN /\ rerr' = "nil" /\ conn' = "open" /\ buffered' = 0
          /\ rpc' = "decode"
          /\ hist' = hist \cup {"connected"}
                          \cup (IF "disconnect" \in hist THEN {"reconnected"} ELSE {})
          /\ UNCHANGED fails
     ELSE /\ rerr' = outcome /\ conn' = "none"
          /\ fails' = fails + 1
          /\ rpc' = IF LeavesLoop(KeepRunning(outcome), FALSE, delay) THEN "ret" ELSE "sleep"
          /\ hist' = IF outcome = "apierr" THEN hist \cup {"apiErrorResponse"}
                     ELSE IF delay >= maxDelay THEN hist \cup {"gaveUp"}
                     ELSE hist
          /\ UNCHANGED buffered
  /\ UNCHANGED << mainPc, retVal, runFlg, delay, rmsg, decoded, auxVars, tickSeq, hbSeq, hmPc,
                  hmTick, hbPc, chanMap, chanBuf, chanClosed, wPc, extPc, stopCalled,
                  stopReturned, invocations, handled, hbLog, lastSleep >>

RdConnected == \E outcome \in {"ok", "neterr", "apierr"} : Connected(outcome)

\* newReader, lines 217-218: time.Sleep(delay); delay *= 2.
RdWake ==
  /\ rpc = "sleep"
  /\ lastSleep' = delay
  /\ delay' = delay * 2
  /\ rpc' = "lock"
  /\ UNCHANGED << mainPc, retVal, runFlg, mtx, rerr, conn, buffered, rmsg, decoded, auxVars,
                  tickSeq, hbSeq, hmPc, hmTick, hbPc, chanMap, chanBuf, chanClosed, wPc, extPc,
                  stopCalled, stopReturned, invocations, handled, hbLog, fails, hist >>

\* readMessages, lines 253-262: the "disconnect" case cancels the request under the
\* lock; its break leaves the switch, not the for loop, so dec.Decode is called again.
AfterDisconnectMut(c) == [conn |-> cancelRequest(c), rpc |-> "ret"]
AfterDisconnect(c) == [conn |-> cancelRequest(c), rpc |-> "decode"]

\* readMessages, lines 232-263: dec.Decode yields frame f as StreamMessage m, from the
\* decoder's buffer or from a read of the open body that leaves b further frames in
\* the buffer, and the switch on msg.Type.
\* The session has been sent at most limit frames.  Ticks for one instrument are
\* numbered in the order they are decoded, and so are the heartbeats.
DecodeFrameWithin(limit, b, f, m) ==
  /\ rpc = "decode"
  /\ \/ buffered > 0 /\ b = 0 /\ buffered' = buffered - 1
     \/ buffered = 0 /\ conn = "open" /\ decoded + 1 + b <= limit /\ buffered' = b
  /\ decoded' = decoded + 1
  /\ CASE m.Type = "heartbeat" ->
            /\ IF m.ok
               THEN /\ rpc' = "sendHb" /\ hbSeq' = hbSeq + 1
                    /\ rmsg' = [Type |-> m.Type, instr |-> "", ok |-> TRUE, n |-> hbSeq + 1]
               ELSE /\ rpc' = "decode" /\ UNCHANGED << rmsg, hbSeq >>
            /\ UNCHANGED << conn, hist, tickSeq >>
       [] m.Type = "disconnect" ->
            /\ mtx = "free"
            /\ conn' = AfterDisconnect(conn).conn
            /\ rpc' = AfterDisconnect(conn).rpc
            /\ hist' = hist \cup {"disconnect"}
            /\ UNCHANGED << rmsg, tickSeq, hbSeq >>
       [] OTHER ->
            /\ IF m.ok /\ m.instr \in Routable
               THEN /\ tickSeq' = [tickSeq EXCEPT ![m.instr] = @ + 1]
                    /\ rmsg' = [Type |-> m.Type, instr |-> m.instr, ok |-> TRUE,
                                n |-> tickSeq[m.instr] + 1]
               ELSE /\ rmsg' = [Type |-> m.Type, instr |-> m.instr, ok |-> m.ok, n |-> 0]
                    /\ UNCHANGED tickSeq
            /\ rpc' = "sendMsg"
            /\ hist' = IF f.kind = "error" THEN hist \cup {"errorFrame"}
                       ELSE IF ~(m.ok /\ m.instr \in Instrs) THEN hist
                       ELSE hist
                            \cup (IF "disconnect" \notin hist THEN {"tickBeforeDisconnect"} ELSE {})
                            \cup (IF "reconnected" \in hist THEN {"tickAfterReconnect"} ELSE {})
                            \cup (IF "dropped" \in hist THEN {"tickAfterDrop"} ELSE {})
            /\ UNCHANGED << conn, hbSeq >>
  /\ UNCHANGED << mainPc, retVal, runFlg, mtx, delay, rerr, hmPc, hmTick, hbPc, chanMap,
                  chanBuf, chanClosed, wPc, extPc, stopCalled, stopReturned, invocations,
                  handled, hbLog, fails, lastSleep, auxVars >>

DecodeFrame(b, f, m) == DecodeFrameWithin(MaxFrames, b, f, m)

RdDecode ==
  \E b \in 0..MaxBuffered : \E f \in Frames : \E m \in UnmarshalJSON(f) : DecodeFrame(b, f, m)

\* readMessages, lines 232-239: the errors dec.Decode gives when the body ends or holds
\* bad JSON, and the type test that decides whether the error is returned.
DecodeErrors == {"syntax", "eof"}

ReturnsDecodeErrorMut(e) == TRUE
ReturnsDecodeError(e) == e = "apierr"

\* readMessages, lines 233-239 and 265: dec.Decode fails (the request was cancelled, the
\* stall timer closed the body, the stream ended or is no JSON); the error is never an
\* *ApiError, so the loop breaks, closes the reader and calls newReader again.
RdReadFail ==
  /\ rpc = "decode"
  /\ conn' = "none" /\ buffered' = 0
  /\ \E e \in DecodeErrors :
       IF ReturnsDecodeError(e)
       THEN rpc' = "ret" /\ rerr' = e /\ UNCHANGED << delay, fails, lastSleep >>
       ELSE EnterNewReader
  /\ UNCHANGED << mainPc, retVal, runFlg, mtx, rmsg, decoded, auxVars, tickSeq, hbSeq, hmPc,
                  hmTick, hbPc, chanMap, chanBuf, chanClosed, wPc, extPc, stopCalled,
                  stopReturned, invocations, handled, hbLog, hist >>

\* readMessages, lines 225-226 with the deferred close(msgC) and close(hbC); the
\* locals of newReader are gone.
RdReturn ==
  /\ rpc = "ret"
  /\ rpc' = "closed"
  /\ delay' = baseDelay /\ fails' = 0 /\ lastSleep' = 0
  /\ UNCHANGED << mainPc, retVal, runFlg, mtx, rerr, conn, buffered, rmsg, decoded, auxVars,
                  tickSeq, hbSeq, hmPc, hmTick, hbPc, chanMap, chanBuf, chanClosed, wPc, extPc,
                  stopCalled, stopReturned, invocations, handled, hbLog, hist >>

\* ConnectAndDispatch, lines 150-153: lock, runFlg = false, return readMessages' error.
MainReturn ==
  /\ rpc = "closed" /\ mtx = "free" /\ mainPc = "running"
  /\ runFlg' = FALSE
  /\ retVal' = rerr
  /\ mainPc' = "returned"
  /\ rpc' = "done"
  /\ UNCHANGED << mtx, delay, rerr, conn, buffered, rmsg, decoded, auxVars, tickSeq, hbSeq,
                  hmPc, hmTick, hbPc, chanMap, chanBuf, chanClosed, wPc, extPc, stopCalled,
                  stopReturned, invocations, handled, hbLog, fails, lastSleep, hist >>

\* messageServer.Stop, lines 158-161, run by a goroutine that holds no lock.
StopBody ==
  /\ mtx = "free"
  /\ runFlg' = FALSE
  /\ conn' = cancelRequest(conn)


\* ---------------------------------------------------------- PriceServer
\* handleMessages, lines 688-693: receive from msgC and unmarshal the payload; on an
\* error the function calls ps.Stop() and returns.
HmRecv ==
  /\ hmPc = "recv" /\ rpc = "sendMsg"
  /\ rpc' = "decode" /\ rmsg' = NoMsg
  /\ IF rmsg.ok
     THEN hmPc' = "route" /\ hmTick' = [instr |-> rmsg.instr, n |-> rmsg.n]
     ELSE hmPc' = "stopping" /\ UNCHANGED hmTick
  /\ UNCHANGED << mainPc, retVal, runFlg, mtx, delay, rerr, conn, buffered, decoded, auxVars,
                  tickSeq, hbSeq, hbPc, chanMap, chanBuf, chanClosed, wPc, extPc, stopCalled,
                  stopReturned, invocations, handled, hbLog, fails, lastSleep, hist >>

\* handleMessages, lines 694-699: look the instrument up and send the tick on its
\* channel (a blocking send on a channel of capacity defaultBufferSize).
\* With no channel for the instrument (tickChans.Get's ok is false, or the channel
\* is nil) the tick is dropped and the loop goes on with the next message.
AfterNoChanMut == "stopping"
AfterNoChan == "recv"

HmRoute ==
  /\ hmPc = "route"
  /\ IF hmTick.instr \in DOMAIN chanMap /\ chanMap[hmTick.instr] # NoChan
     THEN /\ Len(chanBuf[chanMap[hmTick.instr]]) < defaultBufferSize
          /\ chanBuf' = [chanBuf EXCEPT ![chanMap[hmTick.instr]] = Send(@, hmTick)]
          /\ hmPc' = "recv"
          /\ UNCHANGED hist
     ELSE /\ hmPc' = AfterNoChan
          /\ hist' = hist \cup {"dropped"}
          /\ UNCHANGED chanBuf
  /\ hmTick' = NoTick
  /\ UNCHANGED << mainPc, retVal, runFlg, mtx, rpc, delay, rerr, conn, buffered, rmsg, decoded,
                  auxVars, tickSeq, hbSeq, hbPc, chanMap, chanClosed, wPc, extPc, stopCalled,
                  stopReturned, invocations, handled, hbLog, fails, lastSleep >>

\* handleMessages, lines 691-692: ps.Stop() and return, the tick channels left open.
HmStop ==
  /\ hmPc = "stopping"
  /\ StopBody
  /\ hmPc' = "done"
  /\ hist' = hist \cup {"handleMessagesStop"}
  /\ UNCHANGED << mainPc, retVal, mtx, rpc, delay, rerr, buffered, rmsg, decoded, auxVars,
                  tickSeq, hbSeq, hmTick, hbPc, chanMap, chanBuf, chanClosed, wPc, extPc,
                  stopCalled, stopReturned, invocations, handled, hbLog, fails, lastSleep >>

\* handleMessages, lines 702-708: msgC is closed, so the range loop ends and the
\* channels of the map are closed.
HmCleanup ==
  /\ hmPc = "recv" /\ MsgClosed
  /\ chanMap' = closeTickChans(chanMap, chanClosed)[1]
  /\ chanClosed' = closeTickChans(chanMap, chanClosed)[2]
  /\ hmPc' = "done"
  /\ UNCHANGED << mainPc, retVal, runFlg, mtx, rpc, delay, rerr, conn, buffered, rmsg, decoded,
                  auxVars, tickSeq, hbSeq, hmTick, hbPc, chanBuf, wPc, extPc, stopCalled,
                  stopReturned, invocations, handled, hbLog, fails, lastSleep, hist >>

\* handleHeartbeats, lines 681-683: HeartbeatFunc is set and is called with hb.
callHeartbeatFuncMut(log, hb) == log
callHeartbeatFunc(log, hb) == Append(log, hb)

\* handleHeartbeats, lines 680-682: receive from hbC and enter HeartbeatFunc.
HbRecv ==
  /\ hbPc = "recv" /\ rpc = "sendHb"
  /\ rpc' = "decode" /\ hbPc' = "cb"
  /\ hbLog' = callHeartbeatFunc(hbLog, rmsg.n) /\ rmsg' = NoMsg
  /\ UNCHANGED << mainPc, retVal, runFlg, mtx, delay, rerr, conn, buffered, decoded, auxVars,
                  tickSeq, hbSeq, hmPc, hmTick, chanMap, chanBuf, chanClosed, wPc, extPc,
                  stopCalled, stopReturned, invocations, handled, fails, lastSleep, hist >>

\* HeartbeatFunc calls ps.Stop() (TestPriceServerHeartbeat).
HbCallStop ==
  /\ hbPc = "cb"
  /\ hbPc' = "stopping" /\ stopCalled' = TRUE
  /\ UNCHANGED << mainPc, retVal, runFlg, mtx, rpc, delay, rerr, conn, buffered, rmsg, decoded,
                  auxVars, tickSeq, hbSeq, hmPc, hmTick, chanMap, chanBuf, chanClosed, wPc,
                  extPc, stopReturned, invocations, handled, hbLog, fails, lastSleep, hist >>

HbStop ==
  /\ hbPc = "stopping"
  /\ StopBody
  /\ hbPc' = "cbStopped" /\ stopReturned' = TRUE
  /\ hist' = hist \cup {"handlerStop"}
  /\ UNCHANGED << mainPc, retVal, mtx, rpc, delay, rerr, buffered, rmsg, decoded, auxVars,
                  tickSeq, hbSeq, hmPc, hmTick, chanMap, chanBuf, chanClosed, wPc, extPc,
                  stopCalled, invocations, handled, hbLog, fails, lastSleep >>

\* HeartbeatFunc returns.
HbReturn ==
  /\ hbPc \in {"cb", "cbStopped"}
  /\ hbPc' = "recv"
  /\ UNCHANGED << mainPc, retVal, runFlg, mtx, rpc, delay, rerr, conn, buffered, rmsg, decoded,
                  auxVars, tickSeq, hbSeq, hmPc, hmTick, chanMap, chanBuf, chanClosed, wPc,
                  extPc, stopCalled, stopReturned, invocations, handled, hbLog, fails,
                  lastSleep, hist >>

\* handleHeartbeats, line 680: hbC is closed, the range loop ends.
HbExit ==
  /\ hbPc = "recv" /\ MsgClosed
  /\ hbPc' = "done"
  /\ UNCHANGED << mainPc, retVal, runFlg, mtx, rpc, delay, rerr, conn, buffered, rmsg, decoded,
                  auxVars, tickSeq, hbSeq, hmPc, hmTick, chanMap, chanBuf, chanClosed, wPc,
                  extPc, stopCalled, stopReturned, invocations, handled, hbLog, fails,
                  lastSleep, hist >>

\* initServer's worker, lines 671-672: take the next tick and enter handleFn.
WRecv(c) ==
  /\ wPc[c] = "recv" /\ chanBuf[c] # << >>
  /\ chanBuf' = [chanBuf EXCEPT ![c] = Receive(@).rest]
  /\ wPc' = [wPc EXCEPT ![c] = "handle"]
  /\ invocations' = invocations + 1
  /\ handled' = [handled EXCEPT ![c] = Append(@, Receive(chanBuf[c]).elem)]
  /\ UNCHANGED hbLog
  /\ UNCHANGED << mainPc, retVal, runFlg, mtx, rpc, delay, rerr, conn, buffered, rmsg, decoded,
                  auxVars, tickSeq, hbSeq, hmPc, hmTick, hbPc, chanMap, chanClosed, extPc,
                  stopCalled, stopReturned, fails, lastSleep, hist >>

\* handleFn calls ps.Stop() (TestPriceServer).
WCallStop(c) ==
  /\ wPc[c] = "handle"
  /\ wPc' = [wPc EXCEPT ![c] = "stopping"] /\ stopCalled' = TRUE
  /\ UNCHANGED << mainPc, retVal, runFlg, mtx, rpc, delay, rerr, conn, buffered, rmsg, decoded,
                  auxVars, tickSeq, hbSeq, hmPc, hmTick, hbPc, chanMap, chanBuf, chanClosed,
                  extPc, stopReturned, invocations, handled, hbLog, fails, lastSleep, hist >>

WStop(c) ==
  /\ wPc[c] = "stopping"
  /\ StopBody
  /\ wPc' = [wPc EXCEPT ![c] = "handleStopped"] /\ stopReturned' = TRUE
  /\ hist' = hist \cup {"handlerStop"}
  /\ UNCHANGED << mainPc, retVal, mtx, rpc, delay, rerr, buffered, rmsg, decoded, auxVars,
                  tickSeq, hbSeq, hmPc, hmTick, hbPc, chanMap, chanBuf, chanClosed, extPc,
                  stopCalled, invocations, handled, hbLog, fails, lastSleep >>

\* handleFn returns.
WReturn(c) ==
  /\ wPc[c] \in {"handle", "handleStopped"}
  /\ wPc' = [wPc EXCEPT ![c] = "recv"]
  /\ UNCHANGED << mainPc, retVal, runFlg, mtx, rpc, delay, rerr, conn, buffered, rmsg, decoded,
                  auxVars, tickSeq, hbSeq, hmPc, hmTick, hbPc, chanMap, chanBuf, chanClosed,
                  extPc, stopCalled, stopReturned, invocations, handled, hbLog, fails,
                  lastSleep, hist >>

\* initServer's worker, line 671: the channel is closed and empty, the range loop ends.
WExit(c) ==
  /\ wPc[c] = "recv" /\ chanBuf[c] = << >> /\ chanClosed[c]
  /\ wPc' = [wPc EXCEPT ![c] = "exited"]
  /\ UNCHANGED << mainPc, retVal, runFlg, mtx, rpc, delay, rerr, conn, buffered, rmsg, decoded,
                  auxVars, tickSeq, hbSeq, hmPc, hmTick, hbPc, chanMap, chanBuf, chanClosed,
                  extPc, stopCalled, stopReturned, invocations, handled, hbLog, fails,
                  lastSleep, hist >>

\* Another goroutine of the caller calls ps.Stop() on the running server (the timer of
\* TestPriceServer).
ExtCallStop ==
  /\ extPc = "idle" /\ mainPc = "running"
  /\ extPc' = "stopping" /\ stopCalled' = TRUE
  /\ UNCHANGED << mainPc, retVal, runFlg, mtx, rpc, delay, rerr, conn, buffered, rmsg, decoded,
                  auxVars, tickSeq, hbSeq, hmPc, hmTick, hbPc, chanMap, chanBuf, chanClosed,
                  wPc, stopReturned, invocations, handled, hbLog, fails, lastSleep, hist >>

ExtStop ==
  /\ extPc = "stopping"
  /\ StopBody
  /\ extPc' = "done" /\ stopReturned' = TRUE
  /\ UNCHANGED << mainPc, retVal, mtx, rpc, delay, rerr, buffered, rmsg, decoded, auxVars,
                  tickSeq, hbSeq, hmPc, hmTick, hbPc, chanMap, chanBuf, chanClosed, wPc,
                  stopCalled, invocations, handled, hbLog, fails, lastSleep, hist >>

\* ------------------------------------------------------- specifications
Next ==
  \/ Start
  \/ RdLock
  \/ RdConnected
  \/ RdWake
  \/ RdDecode
  \/ RdReadFail
  \/ RdReturn
  \/ MainReturn
  \/ HmRecv
  \/ HmRoute
  \/ HmStop
  \/ HmCleanup
  \/ HbRecv
  \/ HbCallStop
  \/ HbStop
  \/ HbReturn
  \/ HbExit
  \/ \E c \in Chans : WRecv(c)
  \/ \E c \in Chans : WCallStop(c)
  \/ \E c \in Chans : WStop(c)
  \/ \E c \in Chans : WReturn(c)
  \/ \E c \in Chans : WExit(c)
  \/ ExtCallStop
  \/ ExtStop

Spec == Init /\ [][Next]_vars

\* A session nobody stops: every connect attempt is answered with a stream, the
\* server sends well-formed ticks, heartbeats and disconnects, each body read
\* yields one frame, and the caller's callbacks do not call Stop.
StreamFrames ==
  [kind : {"tick"}, instr : WireInstrs, ok : {TRUE}]
  \cup { [kind |-> "heartbeat", instr |-> "", ok |-> TRUE] }
  \cup { [kind |-> "disconnect", instr |-> "", ok |-> TRUE] }

StConnected == Connected("ok")

StDecode ==
  \E f \in StreamFrames : \E m \in UnmarshalJSON(f) : DecodeFrameWithin(MaxStreamFrames, 0, f, m)

StreamNext ==
  \/ Start
  \/ RdLock
  \/ StConnected
  \/ StDecode
  \/ RdReadFail
  \/ HmRecv
  \/ HmRoute
  \/ HbRecv
  \/ HbReturn
  \/ \E c \in Chans : WRecv(c)
  \/ \E c \in Chans : WReturn(c)

StreamSpec == Init /\ [][StreamNext]_vars


\* The goroutines are scheduled fairly, connect attempts, reads and sleeps end, the
\* caller's callbacks return, and a goroutine waiting for s.mtx gets it eventually
\* (strong fairness: the read loop takes and releases the lock over and over).
\* Whether anybody calls Stop is up to the caller.
Reader == RdLock \/ RdConnected \/ RdWake \/ RdDecode \/ RdReadFail \/ RdReturn \/ MainReturn
HandleMessages == HmRecv \/ HmRoute \/ HmCleanup
HandleHeartbeats == HbRecv \/ HbReturn \/ HbExit
Worker(c) == WRecv(c) \/ WReturn(c) \/ WExit(c)
StopBodies == HmStop \/ HbStop \/ ExtStop \/ \E c \in Chans : WStop(c)

Fairness ==
  /\ WF_vars(Start)
  /\ WF_vars(Reader)
  /\ WF_vars(HandleMessages)
  /\ WF_vars(HandleHeartbeats)
  /\ \A c \in Chans : WF_vars(Worker(c))
  /\ SF_vars(StopBodies)

FairSpec == Spec /\ Fairness

\* ---------------------------------------------------------------- claims
RetStates == {"ret", "closed", "done"}

Min(a, b) == IF a <= b THEN a ELSE b

\* C1: once a connect attempt has been answered with an *ApiError, the read loop is
\* on its way out with that error and makes no further attempt, ConnectAndHandle
\* returns that error, and if no connection was ever open the handler was never entered.
C1_ApiErrorEndsSession ==
  "apiErrorResponse" \in hist =>
    /\ rerr = "apierr" /\ rpc \in RetStates /\ conn = "none"
    /\ mainPc = "returned" => retVal = "apierr"
    /\ "connected" \notin hist => invocations = 0

C1_Witness ==
  /\ "apiErrorResponse" \in hist /\ "connected" \notin hist
  /\ mainPc = "returned" /\ retVal = "apierr"


\* C2: once the caller has called Stop on the running server, ConnectAndHandle
\* eventually returns (the callbacks return, by Fairness).
C2_StopLeadsToReturn == stopCalled ~> (mainPc = "returned")

\* C3: once a Stop call of the caller has returned, the tick handler is not entered again.
C3_NoInvocationAfterStop == [][stopReturned => invocations' = invocations]_vars

\* C4: when ConnectAndHandle has returned, every worker started by initServer and
\* the heartbeat worker have exited.
C4_WorkersExitedAtReturn ==
  mainPc = "returned" => (hbPc = "done" /\ \A c \in Chans : wPc[c] = "exited")

\* C5: when Stop was called from inside the tick handler or the heartbeat callback
\* and the session ended for no other reason (no *ApiError response, connect loop not
\* left at maxDelay), ConnectAndHandle returns nil.
C5_HandlerStopReturnsNil ==
  (mainPc = "returned" /\ "handlerStop" \in hist /\ "apiErrorResponse" \notin hist
     /\ "gaveUp" \notin hist)
  => retVal = "nil"

\* C6: with no Stop call and no *ApiError response, the read loop never leaves the
\* connect loop, however many attempts have failed.
C6_ConnectFailuresNeverReturn ==
  (~stopCalled /\ "handleMessagesStop" \notin hist /\ hmPc # "stopping"
     /\ "apiErrorResponse" \notin hist)
  => rpc \notin RetStates

\* C7: ConnectAndHandle returns nil only if the caller called Stop.
C7_NilOnlyAfterStop == (mainPc = "returned" /\ retVal = "nil") => stopCalled

\* C8: a connect attempt that fails with a network error, the k-th in a row, is
\* followed by a sleep of min(1s * 2^(k-1), maxDelay).
C8_BackoffDelay ==
  [][(rpc = "connecting" /\ rpc' # "connecting" /\ rerr' = "neterr")
       => (rpc' = "sleep" /\ delay' = Min(baseDelay * 2^(fails' - 1), maxDelay))]_vars

\* C9: when a frame with a top-level code has been decoded, ConnectAndDispatch
\* returns an *ApiError.
C9_ErrorFrameReturnsApiError ==
  (mainPc = "returned" /\ "errorFrame" \in hist) => retVal = "apierr"


DisconnectFrame == [kind |-> "disconnect", instr |-> "", ok |-> TRUE]

DecodeLoop == {"decode", "sendMsg", "sendHb"}

\* C10: decoding a disconnect frame cancels the current request and leaves the read
\* loop in its decode loop (readMessages does not return because of the frame); when
\* the read loop leaves the decode loop it closes the reader and calls newReader; and
\* newReader, the session not stopped, makes a connect attempt.
C10_DisconnectReconnects ==
  [][/\ (\E b \in 0..MaxBuffered : \E m \in UnmarshalJSON(DisconnectFrame) :
            DecodeFrame(b, DisconnectFrame, m))
          => (conn' = "cancelled" /\ rpc' = "decode" /\ mainPc' = "running")
     /\ (rpc \in DecodeLoop /\ rpc' \notin DecodeLoop)
          => (rpc' = "lock" /\ conn' = "none" /\ delay' = baseDelay /\ rerr' = "nil")
     /\ (rpc = "lock" /\ rpc' # "lock" /\ runFlg)
          => (rpc' = "connecting" /\ conn' = "inflight")]_vars

C10_Witness ==
  /\ "disconnect" \in hist /\ rpc = "connecting" /\ runFlg
  /\ ~stopCalled /\ "handleMessagesStop" \notin hist


\* The channel initServer registers for instrument k, and the ticks of k that are on
\* their way: handed to handleFn, queued on the channel, held by handleMessages, or
\* held by the read loop for msgC.
RegChans == initServer(newTickChans(Instrs))

RegChan(k) == RegChans[k]

Ns(q) == [i \in 1..Len(q) |-> q[i].n]

Pipeline(k) ==
  Ns(handled[RegChan(k)]) \o Ns(chanBuf[RegChan(k)])
    \o (IF hmPc = "route" /\ hmTick.instr = k THEN << hmTick.n >> ELSE << >>)
    \o (IF rpc = "sendMsg" /\ rmsg.ok /\ rmsg.instr = k THEN << rmsg.n >> ELSE << >>)

Count(x, q) == Cardinality({i \in 1..Len(q) : q[i] = x})

InTransit(k) == Len(Pipeline(k)) - Len(handled[RegChan(k)])

\* C11: in a session nobody stops, every tick decoded for a registered instrument is,
\* exactly once, either handed to handleFn or still on its way to it, and handleFn is
\* entered for no tick twice; with nothing on its way, handleFn has been entered
\* exactly once for every tick decoded.
C11_ExactlyOnce ==
  \A k \in Instrs :
    /\ Len(Pipeline(k)) = tickSeq[k]
    /\ \A i \in 1..tickSeq[k] : Count(i, Pipeline(k)) = 1
    /\ InTransit(k) = 0 =>
         \A i \in 1..tickSeq[k] : Count(i, Ns(handled[RegChan(k)])) = 1

C11_Witness ==
  /\ "tickBeforeDisconnect" \in hist /\ "tickAfterReconnect" \in hist
  /\ \E k \in Instrs :
       /\ tickSeq = [j \in Routable |-> IF j = k THEN 2 ELSE 0]
       /\ Ns(handled[RegChan(k)]) = << 1, 2 >>
       /\ \A i \in 1..2 : handled[RegChan(k)][i].instr = k


\* C12: every worker hands the ticks of its instrument to handleFn in the order the
\* read loop decoded them, reconnects or not.
C12_InOrder ==
  \A c \in Chans : \A i, j \in 1..Len(handled[c]) :
    i < j => handled[c][i].n < handled[c][j].n

C12_Witness ==
  /\ "reconnected" \in hist
  /\ \E k \in Instrs : Ns(handled[RegChan(k)]) = << 1, 2, 3 >>


\* C13: handleFn is entered only for ticks of instruments passed to NewPriceServer,
\* and only by the worker of the channel registered for the tick's instrument.
C13_OnlyRegistered ==
  \A c \in Chans : \A i \in 1..Len(handled[c]) :
    handled[c][i].instr \in Instrs /\ c = RegChan(handled[c][i].instr)


\* C14: when handleMessages finds no channel for the instrument of a tick, it drops
\* the tick and goes on receiving from msgC: nothing is stopped, cancelled, closed,
\* queued or returned by that step.
C14_UnregisteredDropped ==
  [][(hmPc = "route" /\ hmTick.instr \notin Routable /\ hmPc' # "route")
       => (hmPc' = "recv"
           /\ UNCHANGED << mainPc, retVal, runFlg, conn, rpc, chanMap, chanBuf, chanClosed, wPc,
                           hbPc >>)]_vars

C14_Witness ==
  /\ "dropped" \in hist /\ "tickAfterDrop" \in hist
  /\ mainPc = "running" /\ runFlg /\ hmPc = "recv"
  /\ \E k \in Instrs :
       /\ tickSeq = [j \in Routable |-> IF j = k THEN 1 ELSE 0]
       /\ handled[RegChan(k)] = << [instr |-> k, n |-> 1] >>


\* The worker of channel c is inside handleFn, and the channel is full.
QueueFull(c) == Len(chanBuf[c]) = defaultBufferSize

Backlogged(c) == QueueFull(c) /\ wPc[c] = "handle"

\* C15: when handleMessages routes a tick to a full queue whose worker is not
\* consuming, the route completes and leaves the queue holding the
\* defaultBufferSize most recently routed ticks in arrival order (the oldest is evicted).
C15_QueueKeepsNewest ==
  \A k \in Instrs :
    (hmPc = "route" /\ hmTick.instr = k /\ Backlogged(RegChan(k)))
    => ENABLED (HmRoute /\ chanBuf'[RegChan(k)] = Append(Tail(chanBuf[RegChan(k)]), hmTick))


\* C16: routing never blocks the read loop: while the read loop holds the next data
\* frame for msgC and handleMessages is routing a tick to a backlogged queue (full,
\* its handler not returning), handleMessages can complete the route and go on to
\* receive the frame from the read loop.
C16_RouteNeverBlocks ==
  (rpc = "sendMsg" /\ hmPc = "route" /\ hmTick.instr \in Instrs
     /\ Backlogged(RegChan(hmTick.instr)))
  => ENABLED HmRoute


\* The steps the read loop can take in a session nobody stops.
StreamReader == RdLock \/ StConnected \/ StDecode \/ RdReadFail

\* C17: while an instrument is backlogged and HeartbeatFunc is not running, the path
\* from the wire to HeartbeatFunc is not waiting for the backlogged handler: the read
\* loop, handleMessages or handleHeartbeats can take a step.
C17_HeartbeatsNotStarved ==
  ((\E c \in Chans : Backlogged(c)) /\ hbPc = "recv")
  => ENABLED (StreamReader \/ HmRecv \/ HmRoute \/ HbRecv)


\* C18: while handleFn does not return for instrument a, a tick of another registered
\* instrument b that the read loop holds for msgC, the queue of b having room, can
\* move on towards the worker of b without the handler of a returning.
C18_OtherKeyNotBlocked ==
  \A a, b \in Instrs :
    (a # b /\ wPc[RegChan(a)] = "handle" /\ ~QueueFull(RegChan(b))
       /\ rpc = "sendMsg" /\ rmsg.ok /\ rmsg.instr = b /\ hmPc \in {"recv", "route"})
    => ENABLED (HmRecv \/ HmRoute)


\* C19: while HeartbeatFunc is running, the read loop is never waiting for it: a
\* heartbeat the read loop holds for hbC can be handed over at once, so the frames
\* behind it are not delayed.
C19_HeartbeatCallbackDecoupled ==
  (rpc = "sendHb" /\ hbPc = "cb") => ENABLED HbRecv


\* C20: the heartbeats HeartbeatFunc has been entered for, followed by the one the
\* read loop holds for hbC, are the heartbeats decoded successfully so far, each
\* once and in the order they were decoded.
C20_HeartbeatsOnceInOrder ==
  hbLog \o (IF rpc = "sendHb" THEN << rmsg.n >> ELSE << >>) = [i \in 1..hbSeq |-> i]

C20_Witness ==
  /\ hbSeq = 2 /\ hbLog = << 1, 2 >> /\ hbPc = "cb"


\* C21: a data frame whose payload is no tick does not end the session:
\* handleMessages does not call Stop because of it, and it stops receiving from msgC
\* only when the read loop has closed msgC.
C21_BadPayloadIsolated ==
  /\ hmPc # "stopping"
  /\ hmPc = "done" => MsgClosed


C28_DelayResetAfterConnect ==
  [][/\ (rpc = "decode" /\ rpc' = "lock")
          => (delay' = baseDelay /\ fails' = 0 /\ lastSleep' = 0)
     /\ (rpc = "lock" /\ rpc' = "connecting" /\ fails = 0) => lastSleep = 0
     /\ (rpc = "sleep" /\ rpc' = "lock" /\ fails = 1) => lastSleep' = baseDelay]_vars

\* A reconnect after a disconnect frame, then the body ending, one failed attempt and
\* its sleep of the base delay.
C28_Witness ==
  /\ "reconnected" \in hist
  /\ rpc = "lock" /\ fails = 1 /\ lastSleep = baseDelay /\ delay = 2 * baseDelay

\* C29: an error of dec.Decode (bad JSON, end of stream) is not returned: leaving the
\* decode loop closes the body and enters newReader with no error, which makes a
\* connect attempt if the session is not stopped and returns nil if it is.
C29_DecodeErrorNotReturned ==
  [][/\ rerr' \notin DecodeErrors /\ retVal' \notin DecodeErrors
     /\ (rpc = "decode" /\ rpc' \notin DecodeLoop) => (conn' = "none" /\ rpc' = "lock")
     /\ (rpc = "lock" /\ rerr = "nil" /\ rpc' # "lock")
          => IF runFlg THEN conn' = "inflight" ELSE rpc' = "ret" /\ rerr' = "nil"]_vars

\* The body of a connection ended with no disconnect frame and no Stop(), and the next
\* request is in flight.
C29_Witness ==
  /\ "connected" \in hist /\ "disconnect" \notin hist /\ runFlg /\ ~stopCalled
  /\ rpc = "connecting" /\ fails = 0 /\ decoded > 0

\* C30: once ConnectAndHandle has run initServer, the workers started (and the
\* channels they read) are as many as the keys passed to NewPriceServer.
C30_OneWorkerPerKey ==
  mainPc # "idle" => Cardinality({c \in Chans : wPc[c] # "off"}) = Cardinality(Instrs)

\* C31: once ConnectAndHandle has returned, every worker started by initServer
\* eventually exits (the goroutines being scheduled fairly and the callbacks returning).
C31_WorkersEventuallyExit ==
  (mainPc = "returned") ~> (\A c \in Chans : wPc[c] \in {"off", "exited"})

\* C34: whenever the read loop is sending a frame on msgC, handleMessages has not
\* returned: a receiver of msgC is still running.
C34_MsgReceiverRunning == rpc = "sendMsg" => hmPc # "done"

\* ---------------------------------------------------------- TimedReader
\* A session nobody stops in which dec.Decode reads the body through
\* TimedReader.Read, one Read at a time, and time passes while a Read is pending.
\* A Read that returns and the timer.Stop() after it are one step.

\* timer.Reset(r.Timeout) or time.AfterFunc(r.Timeout, ...): the timer starts anew.
timerResetMut(age) == age
timerReset(age) == 0

TimedFrames ==
  { [kind |-> "tick", instr |-> "A", ok |-> TRUE],
    [kind |-> "heartbeat", instr |-> "", ok |-> TRUE] }

\* TimedReader.Read, lines 57-62: the timer is set and the Read of the body begins.
TdReadStart ==
  /\ rpc = "decode" /\ buffered = 0 /\ conn = "open"
  /\ rpc' = "reading"
  /\ timer' = "armed" /\ timerAge' = timerReset(timerAge) /\ readAge' = 0
  /\ UNCHANGED << mainPc, retVal, runFlg, mtx, delay, rerr, conn, buffered, rmsg, decoded,
                  tickSeq, hbSeq, hmPc, hmTick, hbPc, chanMap, chanBuf, chanClosed, wPc,
                  extPc, stopCalled, stopReturned, invocations, handled, hbLog, fails,
                  lastSleep, hist >>
  /\ UNCHANGED << ssVars, decVars, winVars, moreVars >>

\* One unit of time passes while the Read is pending; an armed timer does not pass
\* its timeout without firing.
TdTick ==
  /\ rpc = "reading" /\ conn = "open"
  /\ timer = "armed" => timerAge < StallTimeout
  /\ readAge < StallTimeout
  /\ readAge' = readAge + 1
  /\ timerAge' = IF timer = "armed" THEN timerAge + 1 ELSE timerAge
  /\ UNCHANGED << mainPc, retVal, runFlg, mtx, rpc, delay, rerr, conn, buffered, rmsg,
                  decoded, tickSeq, hbSeq, hmPc, hmTick, hbPc, chanMap, chanBuf, chanClosed,
                  wPc, extPc, stopCalled, stopReturned, invocations, handled, hbLog, fails,
                  lastSleep, hist, timer >>
  /\ UNCHANGED << ssVars, decVars, winVars, moreVars >>

\* The function given to time.AfterFunc, line 58: r.Close().
TdTimeout ==
  /\ timer = "armed" /\ timerAge = StallTimeout
  /\ timer' = "fired"
  /\ conn' = IF conn = "open" THEN "closed" ELSE conn
  /\ hist' = hist \cup {"stallClosed"}
  /\ UNCHANGED << mainPc, retVal, runFlg, mtx, rpc, delay, rerr, buffered, rmsg, decoded,
                  tickSeq, hbSeq, hmPc, hmTick, hbPc, chanMap, chanBuf, chanClosed, wPc,
                  extPc, stopCalled, stopReturned, invocations, handled, hbLog, fails,
                  lastSleep, timerAge, readAge >>
  /\ UNCHANGED << ssVars, decVars, winVars, moreVars >>

\* TimedReader.Read, lines 62-64: the Read returns k frames and the timer is stopped.
TdReadDone ==
  /\ rpc = "reading" /\ conn = "open"
  /\ \E k \in 1..(MaxBuffered + 1) : decoded + k <= MaxTimedFrames /\ buffered' = k
  /\ timer' = "off"
  /\ rpc' = "decode"
  /\ hist' = hist \cup (IF readAge > 0 THEN {"lateRead"} ELSE {})
  /\ UNCHANGED << mainPc, retVal, runFlg, mtx, delay, rerr, conn, rmsg, decoded, tickSeq,
                  hbSeq, hmPc, hmTick, hbPc, chanMap, chanBuf, chanClosed, wPc, extPc,
                  stopCalled, stopReturned, invocations, handled, hbLog, fails, lastSleep,
                  timerAge, readAge >>
  /\ UNCHANGED << ssVars, decVars, winVars, moreVars >>

\* The Read returns an error (the body was closed, or the stream ended), so does
\* dec.Decode, and readMessages closes the reader and calls newReader (lines 233-239, 265).
TdReadErr ==
  /\ rpc = "reading"
  /\ timer' = "off"
  /\ conn' = "none" /\ buffered' = 0
  /\ EnterNewReader
  /\ UNCHANGED << mainPc, retVal, runFlg, mtx, rmsg, decoded, tickSeq, hbSeq, hmPc, hmTick,
                  hbPc, chanMap, chanBuf, chanClosed, wPc, extPc, stopCalled, stopReturned,
                  invocations, handled, hbLog, hist, timerAge, readAge >>
  /\ UNCHANGED << ssVars, decVars, winVars, moreVars >>

\* dec.Decode yields a frame that a Read has already brought into the buffer.
TdDecode ==
  \E f \in TimedFrames : \E m \in UnmarshalJSON(f) : DecodeFrameWithin(0, 0, f, m)

TimedNext ==
  \/ Start
  \/ RdLock
  \/ StConnected
  \/ TdReadStart
  \/ TdTick
  \/ TdTimeout
  \/ TdReadDone
  \/ TdReadErr
  \/ TdDecode
  \/ HmRecv
  \/ HmRoute
  \/ HbRecv
  \/ HbReturn
  \/ \E c \in Chans : WRecv(c)
  \/ \E c \in Chans : WReturn(c)

TimedSpec == Init /\ [][TimedNext]_vars

SsRun ==
  /\ ssPc["run"] = "idle" /\ isStopped
  /\ isStopped' = FALSE
  /\ stallTimer' = "armed"
  /\ ssErr' = "nil"
  /\ ssPc' = [ssPc EXCEPT !["run"] = "loop"]
  /\ UNCHANGED << rsp, rspMtx, bodies, opened, strm, pvChan, ssStop, ssSeen, coreVars, timerVars, decVars, winVars,
                  callPc, callRet, callWorkers, againVars >>

\* Run, lines 56 and 63: for !ss.isStopped { ss.connect() ... }; return err.
SsLoop ==
  /\ ssPc["run"] = "loop"
  /\ ssPc' = [ssPc EXCEPT !["run"] = IF isStopped THEN "cleanup" ELSE "disconnect"]
  /\ UNCHANGED << isStopped, rsp, rspMtx, stallTimer, bodies, opened, strm, moreVars, coreVars, timerVars, decVars, winVars >>

\* The stall timeout passes since the timer was last set: the timer runs ss.connect
\* in a goroutine of its own.
SsTimerFires ==
  /\ stallTimer = "armed" /\ ssPc["timer"] = "idle"
  /\ stallTimer' = "off"
  /\ ssPc' = [ssPc EXCEPT !["timer"] = "disconnect"]
  /\ UNCHANGED << isStopped, rsp, rspMtx, bodies, opened, strm, moreVars, coreVars, timerVars, decVars, winVars >>

\* disconnect, lines 182-188: under rspMtx, close the body of ss.rsp if there is one.
disconnect(r, open) == IF r # NoRsp THEN open \ {r} ELSE open

\* connect, line 158: ss.disconnect().
SsDisconnect(g) ==
  /\ ssPc[g] = "disconnect" /\ rspMtx = "free"
  /\ bodies' = disconnect(rsp, bodies)
  /\ ssPc' = [ssPc EXCEPT ![g] = "check"]
  /\ UNCHANGED << isStopped, rsp, rspMtx, stallTimer, opened, strm, moreVars, coreVars, timerVars, decVars, winVars >>

\* connect, line 162: for !ss.isStopped, read without a lock; when the server is
\* stopped connect returns: Run goes on to runDispatchLoop, the timer's goroutine ends.
SsCheck(g) ==
  /\ ssPc[g] = "check"
  /\ ssPc' = [ssPc EXCEPT ![g] = IF ~isStopped THEN "lock"
                                 ELSE IF g = "run" THEN "dispatch" ELSE "idle"]
  /\ UNCHANGED << isStopped, rsp, rspMtx, stallTimer, bodies, opened, strm, moreVars, coreVars, timerVars, decVars, winVars >>

\* connect, line 164: ss.rspMtx.Lock().
SsLock(g) ==
  /\ ssPc[g] = "lock" /\ rspMtx = "free"
  /\ rspMtx' = g
  /\ ssPc' = [ssPc EXCEPT ![g] = "connect"]
  /\ UNCHANGED << isStopped, rsp, stallTimer, bodies, opened, strm, moreVars, coreVars, timerVars, decVars, winVars >>

\* connect, lines 167-177: ss.rsp, err = ss.ctx.Connect(); a response resets the
\* stall timer and connect returns, an error leaves ss.rsp nil and connect sleeps.
SsConnect(g) ==
  /\ ssPc[g] = "connect"
  /\ rspMtx' = "free"
  /\ \/ /\ opened < MaxBodies
        /\ opened' = opened + 1
        /\ rsp' = opened + 1
        /\ bodies' = bodies \cup {opened + 1}
        /\ stallTimer' = "armed"
        /\ ssPc' = [ssPc EXCEPT ![g] = IF g = "run" THEN "dispatch" ELSE "idle"]
     \/ /\ rsp' = NoRsp
        /\ ssPc' = [ssPc EXCEPT ![g] = "sleep"]
        /\ UNCHANGED << opened, bodies, stallTimer >>
  /\ UNCHANGED << isStopped, strm, moreVars, coreVars, timerVars, decVars, winVars >>

\* connect, lines 178-179: time.Sleep(backoff); backoff *= 2.
SsWake(g) ==
  /\ ssPc[g] = "sleep"
  /\ ssPc' = [ssPc EXCEPT ![g] = "check"]
  /\ UNCHANGED << isStopped, rsp, rspMtx, stallTimer, bodies, opened, strm, moreVars, coreVars, timerVars, decVars, winVars >>

\* runDispatchLoop, line 67: strm = ss.rsp.Body, read without rspMtx; with ss.rsp
\* nil the goroutine panics.
SsDispatch ==
  /\ ssPc["run"] = "dispatch"
  /\ IF rsp = NoRsp
     THEN ssPc' = [ssPc EXCEPT !["run"] = "panicked"] /\ UNCHANGED strm
     ELSE ssPc' = [ssPc EXCEPT !["run"] = "top"] /\ strm' = rsp
  /\ UNCHANGED << isStopped, rsp, rspMtx, stallTimer, bodies, opened, moreVars, coreVars, timerVars, decVars, winVars >>

\* runDispatchLoop, lines 74 and 99: for !ss.isStopped { ... }; return nil.
SsTop ==
  /\ ssPc["run"] = "top"
  /\ IF isStopped
     THEN ssPc' = [ssPc EXCEPT !["run"] = "loop"] /\ ssErr' = "nil"
     ELSE ssPc' = [ssPc EXCEPT !["run"] = "decode"] /\ UNCHANGED ssErr
  /\ UNCHANGED << isStopped, rsp, rspMtx, stallTimer, bodies, opened, strm, pvChan, ssStop,
                  ssSeen, coreVars, timerVars, decVars, winVars,
                  callPc, callRet, callWorkers, againVars >>

\* dispatchMessage, lines 102-131: a disconnect message is returned as an error; a
\* tick goes to handleFn and a heartbeat to hbCh, and nil is returned.
StreamKinds == {"tick", "heartbeat", "disconnect"}

dispatchMessage(kind) == IF kind = "disconnect" THEN "disconnect" ELSE "nil"

\* runDispatchLoop, lines 75-95: a message is decoded from the open body, the stall
\* timer is reset and the message dispatched; an error of dispatchMessage is returned.
SsDecode ==
  /\ ssPc["run"] = "decode" /\ strm \in bodies
  /\ stallTimer' = "armed"
  /\ \E kind \in StreamKinds :
       /\ ssSeen' = ssSeen \cup {kind}
       /\ IF dispatchMessage(kind) # "nil"
          THEN ssErr' = dispatchMessage(kind) /\ ssPc' = [ssPc EXCEPT !["run"] = "loop"]
          ELSE UNCHANGED ssErr /\ ssPc' = [ssPc EXCEPT !["run"] = "top"]
  /\ UNCHANGED << isStopped, rsp, rspMtx, bodies, opened, strm, pvChan, ssStop, coreVars, timerVars, decVars, winVars,
                  callPc, callRet, callWorkers, againVars >>

\* runDispatchLoop, lines 76-88: dec.Decode fails with an error that is no *ApiError
\* (the body was closed, or the stream ended): nil is returned.
SsReadFails ==
  /\ ssPc["run"] = "decode"
  /\ ssErr' = "nil"
  /\ ssPc' = [ssPc EXCEPT !["run"] = "loop"]
  /\ UNCHANGED << isStopped, rsp, rspMtx, stallTimer, bodies, opened, strm, pvChan, ssStop,
                  ssSeen, coreVars, timerVars, decVars, winVars,
                  callPc, callRet, callWorkers, againVars >>

\* runDispatchLoop, lines 77-83: dec.Decode returns the *ApiError the body holds;
\* ss.Stop() sets isStopped ...
SsApiError ==
  /\ ssPc["run"] = "decode" /\ strm \in bodies
  /\ isStopped' = TRUE
  /\ ssSeen' = ssSeen \cup {"apiError"}
  /\ ssPc' = [ssPc EXCEPT !["run"] = "apiStop"]
  /\ UNCHANGED << rsp, rspMtx, stallTimer, bodies, opened, strm, pvChan, ssErr, ssStop,
                  coreVars, timerVars, decVars, winVars,
                  callPc, callRet, callWorkers, againVars >>

\* ... and disconnects, and the error is returned.
SsApiStop ==
  /\ ssPc["run"] = "apiStop" /\ rspMtx = "free"
  /\ bodies' = disconnect(rsp, bodies)
  /\ ssErr' = "apiError"
  /\ ssPc' = [ssPc EXCEPT !["run"] = "loop"]
  /\ UNCHANGED << isStopped, rsp, rspMtx, stallTimer, opened, strm, pvChan, ssStop, ssSeen,
                  coreVars, timerVars, decVars, winVars,
                  callPc, callRet, callWorkers, againVars >>

\* cleanup, line 150: ss.stallTimer.Stop().
SsCleanup ==
  /\ ssPc["run"] = "cleanup"
  /\ stallTimer' = "off"
  /\ ssPc' = [ssPc EXCEPT !["run"] = "cleanupDisconnect"]
  /\ UNCHANGED << isStopped, rsp, rspMtx, bodies, opened, strm, moreVars, coreVars, timerVars, decVars, winVars >>

\* cleanup, lines 151-152: ss.disconnect(); close(ss.hbCh); Run returns err.
SsReturn ==
  /\ ssPc["run"] = "cleanupDisconnect" /\ rspMtx = "free"
  /\ bodies' = disconnect(rsp, bodies)
  /\ ssPc' = [ssPc EXCEPT !["run"] = "returned"]
  /\ UNCHANGED << isStopped, rsp, rspMtx, stallTimer, opened, strm, moreVars, coreVars, timerVars, decVars, winVars >>

\* Stop, line 135, called by the heartbeat callback or by another goroutine of the
\* caller while Run is running: ss.isStopped = true ...
SsStopSet ==
  /\ ssStop = "idle" /\ ssPc["run"] \notin {"idle", "returned", "panicked"}
  /\ isStopped' = TRUE
  /\ ssStop' = "disconnect"
  /\ UNCHANGED << rsp, rspMtx, stallTimer, bodies, opened, strm, ssPc, pvChan, ssErr, ssSeen,
                  coreVars, timerVars, decVars, winVars,
                  callPc, callRet, callWorkers, againVars >>

\* ... and line 136: ss.disconnect().
SsStopDisconnect ==
  /\ ssStop = "disconnect" /\ rspMtx = "free"
  /\ bodies' = disconnect(rsp, bodies)
  /\ ssStop' = "done"
  /\ UNCHANGED << isStopped, rsp, rspMtx, stallTimer, opened, strm, ssPc, pvChan, ssErr,
                  ssSeen, coreVars, timerVars, decVars, winVars,
                  callPc, callRet, callWorkers, againVars >>

SsNext ==
  \/ SsRun
  \/ SsLoop
  \/ SsTimerFires
  \/ \E g \in Goroutines : SsDisconnect(g)
  \/ \E g \in Goroutines : SsCheck(g)
  \/ \E g \in Goroutines : SsLock(g)
  \/ \E g \in Goroutines : SsConnect(g)
  \/ \E g \in Goroutines : SsWake(g)
  \/ SsDispatch
  \/ SsTop
  \/ SsDecode
  \/ SsReadFails
  \/ SsApiError
  \/ SsApiStop
  \/ SsCleanup
  \/ SsReturn
  \/ SsStopSet
  \/ SsStopDisconnect

SsSpec == Init /\ [][SsNext]_vars

\* C24: at most one response body of streamServer is open at any time.
C24_OneOpenBody == Cardinality(bodies) <= 1

\* C33: when Run has returned after a Stop() call and the stream delivered no
\* ApiError, the value returned is nil.
C33_StopReturnsNil ==
  (ssPc["run"] = "returned" /\ ssStop # "idle" /\ "apiError" \notin ssSeen) => ssErr = "nil"

\* C37: while no connect attempt has succeeded, Run does not read the body of ss.rsp.
C37_NoReadWithoutResponse == opened = 0 => ssPc["run"] # "panicked"

\* C38: once Run has returned, no response body of the server is open.
C38_NoBodyOpenAfterReturn == ssPc["run"] = "returned" => bodies = {}


\* ----------------------------------------------------------- EventServer
\* EventServer has the structure of PriceServer with account ids for instruments
\* (eventChans for tickChans).  NewEventServer() with no account id: newEventChans
\* makes an empty map.  The stream carries events of the accounts "A" and "B".
newEventChans(accountIds) == [k \in accountIds |-> NoChan]

EsInit ==
  /\ SessionInit(newEventChans({})) /\ TimerIdle /\ SsIdle /\ DecIdle /\ WinIdle
  /\ MoreIdle

EsNext ==
  \/ Start
  \/ RdLock
  \/ StConnected
  \/ StDecode
  \/ RdReadFail
  \/ HmRecv
  \/ HmRoute
  \/ HbRecv
  \/ HbReturn

EsSpec == EsInit /\ [][EsNext]_vars

\* C25: with no account id registered, every event decoded from the stream is handed
\* to the handler or on its way to it: handleMessages drops none.
C25_AllAccountsDelivered ==
  DOMAIN chanMap = {} =>
    /\ "dropped" \notin hist
    /\ \A k \in Instrs : tickSeq[k] = Len(Pipeline(k))


\* ----------------------------------------------------------- jsonDecoder
\* json.Decoder.Decode into a fresh struct embedding ApiError: a value of the wrong
\* type is an error, an absent key leaves the zero value.
IsOptional(v, t) == v.t \in {"absent", t}

\* apiErrorFromStruct, lines 62-80: nil when Code is 0, else the embedded ApiError.
apiErrorFromStructMut(o) == Nil
apiErrorFromStruct(o) ==
  IF o.code.n = 0 THEN Nil ELSE ApiError(o.code.n, o.message.s, o.moreInfo.s)

\* apiErrorFromMap, lines 82-126.
apiErrorFromMap(recv, o) ==
  IF o.code.t = "absent" THEN Nil
  ELSE IF o.code.t # "num" THEN OtherError
  ELSE IF recv = "imap"
  THEN IF ~IsOptional(o.message, "str") \/ ~IsOptional(o.moreInfo, "str") THEN OtherError
       ELSE ApiError(o.code.n, o.message.s, o.moreInfo.s)
  ELSE IF o.code.n = 0 THEN ApiError(0, "", "")
  ELSE IF o.message.t # "str" \/ o.moreInfo.t # "str" THEN OtherError
  ELSE ApiError(o.code.n, o.message.s, o.moreInfo.s)

\* jsonDecoder.Decode, lines 45-60.
Decode(recv, o) ==
  IF recv = "struct"
  THEN IF IsOptional(o.code, "num") /\ IsOptional(o.message, "str")
            /\ IsOptional(o.moreInfo, "str")
       THEN apiErrorFromStruct(o)
       ELSE OtherError
  ELSE apiErrorFromMap(recv, o)

DecInit ==
  /\ SessionInit(newTickChans(Instrs)) /\ TimerIdle /\ SsIdle /\ WinIdle /\ MoreIdle
  /\ decRecv \in Receivers /\ decObj \in Objects /\ decOut = NoResult

DecCall ==
  /\ decOut = NoResult
  /\ decOut' = Decode(decRecv, decObj)
  /\ UNCHANGED << decRecv, decObj, coreVars, timerVars, ssVars, winVars, moreVars >>

DecNext == DecCall

DecSpec == DecInit /\ [][DecNext]_vars

\* C26: for each receiver, an object with a non-zero code, a message and a moreInfo
\* (a number and two strings) gives an *ApiError with exactly these values, and an
\* object without a code key (its message and moreInfo, if any, strings) gives nil.
C26_ApiErrorDecoded ==
  decOut # NoResult =>
    /\ (decObj.code.t = "num" /\ decObj.code.n # 0 /\ decObj.message.t = "str"
          /\ decObj.moreInfo.t = "str")
         => decOut = ApiError(decObj.code.n, decObj.message.s, decObj.moreInfo.s)
    /\ (decObj.code.t = "absent" /\ IsOptional(decObj.message, "str")
          /\ IsOptional(decObj.moreInfo, "str"))
         => decOut = Nil

C26_Witness ==
  /\ decRecv = "struct"
  /\ decObj = [code |-> Num(1), message |-> Str("Test Message"), moreInfo |-> Str("More Info")]
  /\ decOut = ApiError(1, "Test Message", "More Info")


\* ------------------------------------------------------- analytics.Window
nan == 0
Floats == {1, 2}

min(a, b) == IF a < b THEN a ELSE b

\* The slice after append(values, nan): its elements and its capacity, which
\* grows only when the length would exceed it.
append(w, v) ==
  [values |-> Append(w.values, v),
   cap |-> IF Len(w.values) < w.cap THEN w.cap ELSE 2 * w.cap + 1]

\* Window.expandTo: for i := w.Len(); i < min(n, Cap); i++ { append nan }
RECURSIVE expandLoop(_, _)
expandLoop(w, n) ==
  IF Len(w.values) < n THEN expandLoop(append(w, nan), n) ELSE w

expandTo(w, n) == expandLoop(w, min(n, w.cap))

\* for i := 0; i < nShift; i++ { values[Len-1-i] = values[nShift-1-i] }
shiftMut(values, i, nShift) == values
RECURSIVE shift(_, _, _)
shift(values, i, nShift) ==
  IF i < nShift
  THEN shift([values EXCEPT ![Len(values) - i] = values[nShift - i]], i + 1, nShift)
  ELSE values

\* if len(val) > w.Cap() { val = val[len(val)-w.Cap():] }
skip(val, cap) ==
  IF Len(val) > cap THEN SubSeq(val, Len(val) - cap + 1, Len(val)) ELSE val

\* idx := len(val) - 1; for _, v := range val { values[idx] = v; idx-- }
RECURSIVE store(_, _, _)
store(values, val, j) ==
  IF j <= Len(val)
  THEN store([values EXCEPT ![Len(val) - j + 1] = val[j]], val, j + 1)
  ELSE values

\* Window.Push
Push(w, val) ==
  LET nShift == min(w.cap - Len(val), Len(w.values))
      e == expandTo(w, Len(w.values) + Len(val))
      shifted == shift(e.values, 0, nShift)
  IN  [values |-> store(shifted, skip(val, e.cap), 1), cap |-> e.cap]

Vals == UNION {[1..n -> Floats] : n \in 1..MaxPushLen}

\* NewWindow(capacity)
WinInit ==
  /\ SessionInit(newTickChans(Instrs)) /\ TimerIdle /\ SsIdle /\ DecIdle /\ MoreIdle
  /\ winCap \in 0..MaxCap /\ winValues = << >> /\ winPushed = << >>

WinPush ==
  \E val \in Vals :
    /\ Len(winPushed) + Len(val) <= MaxPushed
    /\ LET w == Push([values |-> winValues, cap |-> winCap], val)
       IN  winValues' = w.values /\ winCap' = w.cap
    /\ winPushed' = winPushed \o val
    /\ UNCHANGED << coreVars, timerVars, ssVars, decVars, moreVars >>

WinNext == WinPush

WinSpec == WinInit /\ [][WinNext]_vars

\* C27: every Push leaves Cap() as it was, Len() is the smaller of the number of
\* values pushed and the capacity, and Values()[i] is the (i+1)-th most recently
\* pushed value.
C27_WindowKeepsNewest ==
  [][/\ winCap' = winCap
     /\ Len(winValues') = min(Len(winPushed'), winCap')
     /\ \A i \in 1..Len(winValues') :
          winValues'[i] = winPushed'[Len(winPushed') - i + 1]]_vars

\* A Push of more values than the capacity on a full Window that held other values.
C27_Witness ==
  /\ winCap = 3 /\ winPushed = << 1, 1, 1, 2, 1, 2 >> /\ winValues = << 2, 1, 2 >>


\* ------------------------------------------------------------ pricesServer
\* The variant of src/prices.go: the server's dispatching goroutine calls
\* pricesServer.handleMessage for every message of msgC, and Run closes the tick
\* channels in finish() once the server's Run has returned.

\* The dispatching goroutine receives a message and calls handleMessage, which
\* unmarshals the payload.
PvRecv ==
  /\ hmPc = "recv" /\ rpc = "sendMsg"
  /\ rpc' = "decode" /\ rmsg' = NoMsg
  /\ IF rmsg.ok
     THEN hmPc' = "get" /\ hmTick' = [instr |-> rmsg.instr, n |-> rmsg.n]
     ELSE hmPc' = "stopping" /\ UNCHANGED hmTick
  /\ UNCHANGED << mainPc, retVal, runFlg, mtx, delay, rerr, conn, buffered, decoded, auxVars,
                  tickSeq, hbSeq, hbPc, chanMap, chanBuf, chanClosed, wPc, extPc, stopCalled,
                  stopReturned, invocations, handled, hbLog, fails, lastSleep, hist >>

\* handleMessage on a payload that is no tick: ps.Stop() and return to the loop.
PvStop ==
  /\ hmPc = "stopping"
  /\ StopBody
  /\ hmPc' = "recv"
  /\ hist' = hist \cup {"handleMessagesStop"}
  /\ UNCHANGED << mainPc, retVal, mtx, rpc, delay, rerr, buffered, rmsg, decoded, auxVars,
                  tickSeq, hbSeq, hmTick, hbPc, chanMap, chanBuf, chanClosed, wPc, extPc,
                  stopCalled, stopReturned, invocations, handled, hbLog, fails, lastSleep >>

\* tickC, ok := ps.chanMap.Get(tick.Instrument): with no channel the tick is dropped.
PvGet ==
  /\ hmPc = "get"
  /\ IF hmTick.instr \in DOMAIN chanMap /\ chanMap[hmTick.instr] # NoChan
     THEN /\ pvChan' = chanMap[hmTick.instr]
          /\ hmPc' = "send"
          /\ UNCHANGED << hmTick, hist >>
     ELSE /\ pvChan' = NoChan
          /\ hmPc' = "recv"
          /\ hmTick' = NoTick
          /\ hist' = hist \cup {"dropped"}
  /\ UNCHANGED << mainPc, retVal, runFlg, mtx, rpc, delay, rerr, conn, buffered, rmsg, decoded,
                  timerVars, ssVars, decVars, winVars, tickSeq, hbSeq, hbPc, chanMap, chanBuf,
                  chanClosed, wPc, extPc, stopCalled, stopReturned, invocations, handled, hbLog,
                  fails, lastSleep, ssErr, ssStop, ssSeen, callPc, callRet, callWorkers, againVars >>

\* tickC <- tick: a send on a closed channel panics; a send on a full one blocks.
PvSend ==
  /\ hmPc = "send"
  /\ IF chanClosed[pvChan]
     THEN /\ hmPc' = "panic"
          /\ hist' = hist \cup {"sendOnClosed"}
          /\ UNCHANGED chanBuf
     ELSE /\ Len(chanBuf[pvChan]) < defaultBufferSize
          /\ chanBuf' = [chanBuf EXCEPT ![pvChan] = Send(@, hmTick)]
          /\ hmPc' = "recv"
          /\ UNCHANGED hist
  /\ hmTick' = NoTick /\ pvChan' = NoChan
  /\ UNCHANGED << mainPc, retVal, runFlg, mtx, rpc, delay, rerr, conn, buffered, rmsg, decoded,
                  timerVars, ssVars, decVars, winVars, tickSeq, hbSeq, hbPc, chanMap,
                  chanClosed, wPc, extPc, stopCalled, stopReturned, invocations, handled, hbLog,
                  fails, lastSleep, ssErr, ssStop, ssSeen, callPc, callRet, callWorkers, againVars >>

\* msgC is closed: the dispatching goroutine's range loop ends.
PvExit ==
  /\ hmPc = "recv" /\ MsgClosed
  /\ hmPc' = "done"
  /\ UNCHANGED << mainPc, retVal, runFlg, mtx, rpc, delay, rerr, conn, buffered, rmsg, decoded,
                  auxVars, tickSeq, hbSeq, hmTick, hbPc, chanMap, chanBuf, chanClosed, wPc,
                  extPc, stopCalled, stopReturned, invocations, handled, hbLog, fails,
                  lastSleep, hist >>

\* pricesServer.Run after ps.srv.Run() has returned: finish() closes every channel of
\* the map and sets its entry to nil.
PvFinish ==
  /\ mainPc = "returned"
  /\ mainPc' = "finished"
  /\ chanMap' = closeTickChans(chanMap, chanClosed)[1]
  /\ chanClosed' = closeTickChans(chanMap, chanClosed)[2]
  /\ UNCHANGED << retVal, runFlg, mtx, rpc, delay, rerr, conn, buffered, rmsg, decoded,
                  auxVars, tickSeq, hbSeq, hmPc, hmTick, hbPc, chanBuf, wPc, extPc, stopCalled,
                  stopReturned, invocations, handled, hbLog, fails, lastSleep, hist >>

PvNext ==
  \/ Start
  \/ RdLock
  \/ StConnected
  \/ RdDecode
  \/ RdReadFail
  \/ RdReturn
  \/ MainReturn
  \/ PvRecv
  \/ PvStop
  \/ PvGet
  \/ PvSend
  \/ PvExit
  \/ PvFinish
  \/ HbRecv
  \/ HbReturn
  \/ HbExit
  \/ \E c \in Chans : WRecv(c)
  \/ \E c \in Chans : WReturn(c)
  \/ \E c \in Chans : WExit(c)
  \/ ExtCallStop
  \/ ExtStop

PvSpec == Init /\ [][PvNext]_vars

\* C32: handleMessage never sends a tick on a channel that finish() has closed.
C32_NoSendOnClosedChannel == "sendOnClosed" \notin hist


\* ----------------------------------------- ConnectAndHandle called again
\* PriceServer.initServer run on a map that already holds channels: the channels it
\* makes are numbered after the base channels made before.
RECURSIVE initServerFromAt(_, _, _, _)
initServerFromAt(seq, i, m, base) ==
  IF i > Len(seq) THEN m ELSE initServerFromAt(seq, i + 1, Set(m, seq[i], base + i), base)

initServerAt(m, base) == initServerFromAt(Instruments(m), 1, m, base)

\* PriceServer.ConnectAndHandle, line 656, called while the server is running:
\* ps.initServer(handleFn) makes a channel and starts a worker for every element of
\* Instruments().
CallInit ==
  /\ callPc = "idle" /\ mainPc = "running" /\ runFlg
  /\ chanMap' = initServerAt(chanMap, Cardinality(Chans))
  /\ callWorkers' = {Cardinality(Chans) + i : i \in 1..Len(Instruments(chanMap))}
  /\ callPc' = "dispatch"
  /\ UNCHANGED << mainPc, retVal, runFlg, mtx, rpc, delay, rerr, conn, buffered, rmsg, decoded,
                  timerVars, ssVars, decVars, winVars, tickSeq, hbSeq, hmPc, hmTick, hbPc,
                  chanBuf, chanClosed, wPc, extPc, stopCalled, stopReturned, invocations,
                  handled, hbLog, fails, lastSleep, hist, pvChan, ssErr, ssStop, ssSeen,
                  callRet, againVars >>

\* ConnectAndDispatch, lines 145-147, and messageServer.initServer: with runFlg set
\* the error "server is already running" is returned.
CallDispatch ==
  /\ callPc = "dispatch" /\ mtx = "free" /\ runFlg
  /\ callRet' = "server is already running"
  /\ callPc' = "returned"
  /\ UNCHANGED << coreVars, timerVars, ssVars, decVars, winVars, pvChan, ssErr, ssStop, ssSeen,
                  callWorkers, againVars >>

\* The read loop connecting, sleeping and reconnecting (the stream delivers no frame),
\* the caller's Stop, and the second call.
CallNext ==
  \/ Start
  \/ RdLock
  \/ RdConnected
  \/ RdWake
  \/ RdReadFail
  \/ RdReturn
  \/ MainReturn
  \/ ExtCallStop
  \/ ExtStop
  \/ CallInit
  \/ CallDispatch

CallSpec == Init /\ [][CallNext]_vars

\* C35: a call of ConnectAndHandle on the running server returns the error "server is
\* already running", changes no entry of the channel map and starts no worker.
C35_SecondCallChangesNothing ==
  [][callPc' # callPc =>
       /\ chanMap' = chanMap /\ callWorkers' = {}
       /\ (callPc' = "returned" => callRet' = "server is already running")]_vars


\* ------------------------------------ ConnectAndDispatch after a Stop
\* messageServer.Stop called by another goroutine while the read loop sleeps in
\* newReader's time.Sleep(delay).
AgainStop ==
  /\ againPc = "idle" /\ rpc = "sleep"
  /\ StopBody
  /\ againPc' = "stopped"
  /\ UNCHANGED << mainPc, retVal, mtx, rpc, delay, rerr, buffered, rmsg, decoded, timerVars,
                  ssVars, decVars, winVars, tickSeq, hbSeq, hmPc, hmTick, hbPc, chanMap,
                  chanBuf, chanClosed, wPc, extPc, stopCalled, stopReturned, invocations,
                  handled, hbLog, fails, lastSleep, hist, pvChan, ssErr, ssStop, ssSeen,
                  callPc, callRet, callWorkers, againDelay >>

\* ConnectAndDispatch called again while the first call's read loop is still asleep:
\* messageServer.initServer tests and sets runFlg under the lock, then readMessages
\* enters newReader with delay = time.Second.
CallAgain ==
  /\ againPc = "stopped" /\ rpc = "sleep" /\ mtx = "free"
  /\ IF runFlg
     THEN againPc' = "refused" /\ UNCHANGED << runFlg, againDelay >>
     ELSE runFlg' = TRUE /\ againPc' = "lock" /\ againDelay' = baseDelay
  /\ UNCHANGED << mainPc, retVal, mtx, rpc, delay, rerr, conn, buffered, rmsg, decoded,
                  timerVars, ssVars, decVars, winVars, tickSeq, hbSeq, hmPc, hmTick, hbPc,
                  chanMap, chanBuf, chanClosed, wPc, extPc, stopCalled, stopReturned,
                  invocations, handled, hbLog, fails, lastSleep, hist, pvChan, ssErr, ssStop,
                  ssSeen, callPc, callRet, callWorkers >>

\* newReader of the second call, lines 201-205: lock, read runFlg, issue the request
\* with the lock held or leave the loop.
AgainLock ==
  /\ againPc = "lock" /\ mtx = "free"
  /\ IF MayRequest(runFlg)
     THEN mtx' = "again" /\ againPc' = "connecting"
     ELSE againPc' = "ret" /\ UNCHANGED mtx
  /\ UNCHANGED << mainPc, retVal, runFlg, rpc, delay, rerr, conn, buffered, rmsg, decoded,
                  timerVars, ssVars, decVars, winVars, tickSeq, hbSeq, hmPc, hmTick, hbPc,
                  chanMap, chanBuf, chanClosed, wPc, extPc, stopCalled, stopReturned,
                  invocations, handled, hbLog, fails, lastSleep, hist, pvChan, ssErr, ssStop,
                  ssSeen, callPc, callRet, callWorkers, againDelay >>

\* newResponse of the second call returns; lines 206-216.
AgainConnected ==
  /\ againPc = "connecting"
  /\ mtx' = "free"
  /\ \E outcome \in {"ok", "neterr", "apierr"} :
       againPc' = IF outcome = "ok" THEN "decode"
                  ELSE IF LeavesLoop(KeepRunning(outcome), FALSE, againDelay) THEN "ret"
                  ELSE "sleep"
  /\ UNCHANGED << mainPc, retVal, runFlg, rpc, delay, rerr, conn, buffered, rmsg, decoded,
                  timerVars, ssVars, decVars, winVars, tickSeq, hbSeq, hmPc, hmTick, hbPc,
                  chanMap, chanBuf, chanClosed, wPc, extPc, stopCalled, stopReturned,
                  invocations, handled, hbLog, fails, lastSleep, hist, pvChan, ssErr, ssStop,
                  ssSeen, callPc, callRet, callWorkers, againDelay >>

\* newReader of the second call, lines 217-218.
AgainWake ==
  /\ againPc = "sleep"
  /\ againDelay' = againDelay * 2
  /\ againPc' = "lock"
  /\ UNCHANGED << coreVars, timerVars, ssVars, decVars, winVars, pvChan, ssErr, ssStop, ssSeen,
                  callPc, callRet, callWorkers >>

\* The second call's readMessages has returned; ConnectAndDispatch, lines 150-153.
AgainReturn ==
  /\ againPc = "ret" /\ mtx = "free"
  /\ runFlg' = FALSE
  /\ againPc' = "returned"
  /\ UNCHANGED << mainPc, retVal, mtx, rpc, delay, rerr, conn, buffered, rmsg, decoded,
                  timerVars, ssVars, decVars, winVars, tickSeq, hbSeq, hmPc, hmTick, hbPc,
                  chanMap, chanBuf, chanClosed, wPc, extPc, stopCalled, stopReturned,
                  invocations, handled, hbLog, fails, lastSleep, hist, pvChan, ssErr, ssStop,
                  ssSeen, callPc, callRet, callWorkers, againDelay >>

\* The first call's read loop connecting, sleeping and reconnecting, the Stop during
\* a sleep, and the second call with its own read loop.
AgainNext ==
  \/ Start
  \/ RdLock
  \/ RdConnected
  \/ RdWake
  \/ RdReadFail
  \/ RdReturn
  \/ MainReturn
  \/ AgainStop
  \/ CallAgain
  \/ AgainLock
  \/ AgainConnected
  \/ AgainWake
  \/ AgainReturn

AgainSpec == Init /\ [][AgainNext]_vars

\* The second call's read loop is in newReader or reading its stream.
AgainActive == againPc \in {"lock", "connecting", "sleep", "decode"}

\* C36: once Stop was called during the backoff sleep and the second ConnectAndDispatch
\* runs its read loop, the first call's read loop issues no further request.
C36_OldLoopTerminates == AgainActive => rpc # "connecting"

\* C39: a Stop() that has been called can complete while the read loop's connect
\* attempt is in flight; it does not depend on the request returning.
C39_StopNotBlockedByConnect ==
  (extPc = "stopping" /\ rpc = "connecting") => ENABLED ExtStop

====
